---- MODULE Spec2Model ----
(***************************************************************************)
(* Model of internal/nixconfig (type Config): a text document edited by    *)
(* regular-expression probes and string splices.  The document is a        *)
(* sequence of one-character strings; offsets are Go's 0-based byte        *)
(* offsets, so Go's s[k] is s[k+1] here, s[:p] is SubSeq(s, 1, p) and      *)
(* s[p:] is SubSeq(s, p+1, Len(s)).                                        *)
(***************************************************************************)
EXTENDS Integers, Sequences, FiniteSets

VARIABLES input, content, log, peer, install

vars == <<input, content, log, peer, install>>

\* Longest sequence of calls made on one Config.
MaxCalls == 2

\* The number of hosts the install command can choose from.
MaxHosts == 2

---------------------------------------------------------------------------
(* Literals of the source.                                                 *)

apps == <<"a", "p", "p", "s">>
browsers == <<"b", "r", "o", "w", "s", "e", "r", "s">>
editors == <<"e", "d", "i", "t", "o", "r", "s">>
firefox == <<"f", "i", "r", "e", "f", "o", "x">>
vim == <<"v", "i", "m">>

DotEnable == <<".", "e", "n", "a", "b", "l", "e">>
FalseLit == <<"f", "a", "l", "s", "e">>
TrueLit == <<"t", "r", "u", "e">>
EnableTrue == <<".", "e", "n", "a", "b", "l", "e", " ", "=", " ", "t", "r", "u", "e", ";">>
ClosingMarker == <<"}", ";">>
ClosingBrace == <<"}">>

\* "\n      " + packageName + ".enable = true;\n    "
PackageIndent == <<"\n", " ", " ", " ", " ", " ", " ">>
PackageTail == <<"\n", " ", " ", " ", " ">>

\* "\n    %s = {\n      %s.enable = true;\n    };\n"
CategoryIndent == <<"\n", " ", " ", " ", " ">>
CategoryOpen == <<" ", "=", " ", "{", "\n", " ", " ", " ", " ", " ", " ">>
CategoryClose == <<"\n", " ", " ", " ", " ", "}", ";", "\n">>

\* "\n  apps = {\n  };\n\n"
appsSection == <<"\n", " ", " ", "a", "p", "p", "s", " ", "=", " ", "{", "\n", " ", " ", "}", ";", "\n", "\n">>

\* The Go string whose characters are those of the sequence s.
RECURSIVE String(_)
String(s) == IF s = <<>> THEN "" ELSE s[1] \o String(Tail(s))

\* Error values: nil and the four fmt.Errorf messages, two of them with the
\* category formatted in: "category '%s' not found in configuration" and
\* "category '%s' closing brace not found".
Nil == "nil"
ErrCategoryNotFound(category) ==
    "category '" \o String(category) \o "' not found in configuration"
ErrClosingBraceNotFound(category) ==
    "category '" \o String(category) \o "' closing brace not found"
ErrAppsNotFound == "'apps' section not found in configuration"
ErrNoClosingBrace == "no closing brace found in configuration"

---------------------------------------------------------------------------
(* String and regexp primitives.                                           *)

Min(S) == CHOOSE x \in S : \A y \in S : x <= y
Max(S) == CHOOSE x \in S : \A y \in S : x >= y

\* s[:p] and s[p:]
Prefix(s, p) == SubSeq(s, 1, p)
Suffix(s, p) == SubSeq(s, p + 1, Len(s))

\* \s of Go's regexp (RE2): [\t\n\f\r ]
IsSpace(ch) == ch \in {" ", "\t", "\n", "\f", "\r"}

\* The literal lit occurs in s at offset p.
MatchLit(s, p, lit) ==
    /\ p + Len(lit) <= Len(s)
    /\ \A k \in 1..Len(lit) : s[p + k] = lit[k]

\* Offset of the first non-space character at or after p (Len(s) if none): \s*
RECURSIVE SkipSpace(_, _)
SkipSpace(s, p) ==
    IF p < Len(s) /\ IsSpace(s[p + 1]) THEN SkipSpace(s, p + 1) ELSE p

\* strings.Index(s, sub): offset of the first occurrence, -1 if none.
Index(s, sub) ==
    LET hits == {p \in 0..Len(s) : MatchLit(s, p, sub)}
    IN  IF hits = {} THEN -1 ELSE Min(hits)

\* strings.LastIndex(s, sub)
LastIndex(s, sub) ==
    LET hits == {p \in 0..Len(s) : MatchLit(s, p, sub)}
    IN  IF hits = {} THEN -1 ELSE Max(hits)

\* The category pattern without its two \s*: QuoteMeta(name) + ` = \{`.
CategoryStartAtOneSpace(s, p, name) ==
    IF MatchLit(s, p, name \o <<" ", "=", " ", "{">>)
    THEN p + Len(name) + 4 ELSE -1

\* End offset of a match of  QuoteMeta(name) + `\s*=\s*\{`  that starts at
\* offset p, or -1.  \s* is followed by a non-space literal each time, so the
\* match that starts at p is unique.
CategoryStartAt(s, p, name) ==
    IF ~MatchLit(s, p, name) THEN -1
    ELSE LET q == SkipSpace(s, p + Len(name))
         IN  IF ~MatchLit(s, q, <<"=">>) THEN -1
             ELSE LET r == SkipSpace(s, q + 1)
                  IN  IF MatchLit(s, r, <<"{">>) THEN r + 1 ELSE -1

\* re.FindStringIndex(c.content) for the category pattern: <<start, end>> of
\* the leftmost match, <<>> for nil.
FindCategoryStart(s, name) ==
    LET hits == {p \in 0..Len(s) : CategoryStartAt(s, p, name) # -1}
    IN  IF hits = {} THEN <<>>
        ELSE <<Min(hits), CategoryStartAt(s, Min(hits), name)>>

\* End offset of a match of  QuoteMeta(name) + `\.enable\s*=\s*` + val + `\s*;`
\* that starts at offset p, or -1.
DeclAt(s, p, name, val) ==
    IF ~MatchLit(s, p, name \o DotEnable) THEN -1
    ELSE LET q == SkipSpace(s, p + Len(name) + Len(DotEnable))
         IN  IF ~MatchLit(s, q, <<"=">>) THEN -1
             ELSE LET r == SkipSpace(s, q + 1)
                  IN  IF ~MatchLit(s, r, val) THEN -1
                      ELSE LET t == SkipSpace(s, r + Len(val))
                           IN  IF MatchLit(s, t, <<";">>) THEN t + 1 ELSE -1

\* oldPattern of EnablePackage: QuoteMeta(name) + `\.enable\s*=\s*false\s*;`
DisabledAt(s, p, name) == DeclAt(s, p, name, FalseLit)

\* re.ReplaceAllString(s, repl) from offset p on, for the pattern of DeclAt
\* with value val: the leftmost match at or after p is replaced and the scan
\* resumes at its end, so matches are taken left to right without overlap.
\* (The names of the model hold no `$`, so repl is taken literally.)
RECURSIVE ReplaceAllFrom(_, _, _, _, _)
ReplaceAllFrom(s, p, name, val, repl) ==
    LET hits == {q \in p..Len(s) : DeclAt(s, q, name, val) # -1}
    IN  IF hits = {} THEN Suffix(s, p)
        ELSE LET m == Min(hits)
             IN  SubSeq(s, p + 1, m) \o repl
                     \o ReplaceAllFrom(s, DeclAt(s, m, name, val), name, val, repl)

---------------------------------------------------------------------------
(* The methods of Config, as functions of the content.                     *)

\* NewConfig storing strings.TrimSpace(content).
NewConfigTrimSpace(s) ==
    LET kept == {k \in 1..Len(s) : ~IsSpace(s[k])}
    IN  IF kept = {} THEN <<>> ELSE SubSeq(s, Min(kept), Max(kept))

\* NewConfig(content): the content of the Config it returns.
NewConfig(s) == s

\* Content()
Content(s) == s

CategoryExists(s, category) == FindCategoryStart(s, category) # <<>>

\* PackageExistsInCategory searching content[startPos:] to its end, not up to
\* the "};" of the category.
PackageExistsInCategoryToEnd(s, category, packageName) ==
    LET startLoc == FindCategoryStart(s, category)
    IN  IF startLoc = <<>> THEN FALSE
        ELSE LET startPos == startLoc[2]
                 endPos == Index(Suffix(s, startPos), ClosingMarker)
             IN  IF endPos = -1 THEN FALSE
                 ELSE Index(Suffix(s, startPos), packageName \o DotEnable) # -1

PackageExistsInCategory(s, category, packageName) ==
    LET startLoc == FindCategoryStart(s, category)
    IN  IF startLoc = <<>> THEN FALSE
        ELSE LET startPos == startLoc[2]
                 endPos == Index(Suffix(s, startPos), ClosingMarker)
             IN  IF endPos = -1 THEN FALSE
                 ELSE LET categorySection == SubSeq(s, startPos + 1, startPos + endPos)
                      IN  Index(categorySection, packageName \o DotEnable) # -1

\* EnablePackage with the two literals exchanged: matches true, writes false.
EnablePackageSwapped(s, packageName) ==
    LET newPattern == packageName \o DotEnable \o <<" ", "=", " ">> \o FalseLit \o <<";">>
        matches == \E p \in 0..Len(s) : DeclAt(s, p, packageName, TrueLit) # -1
    IN  IF ~matches THEN [content |-> s, changed |-> FALSE]
        ELSE [content |-> ReplaceAllFrom(s, 0, packageName, TrueLit, newPattern),
              changed |-> TRUE]

\* EnablePackage testing for the literal "E.enable = false;" (one space on
\* each side of "=", none before ";") before it rewrites.
EnablePackageLiteral(s, packageName) ==
    LET newPattern == packageName \o EnableTrue
        matches == Index(s, packageName \o DotEnable \o <<" ", "=", " ">>
                                \o FalseLit \o <<";">>) # -1
    IN  IF ~matches THEN [content |-> s, changed |-> FALSE]
        ELSE [content |-> ReplaceAllFrom(s, 0, packageName, FalseLit, newPattern),
              changed |-> TRUE]

\* EnablePackage rewriting the first match only.
EnablePackageFirstOnly(s, packageName) ==
    LET newPattern == packageName \o EnableTrue
        hits == {p \in 0..Len(s) : DisabledAt(s, p, packageName) # -1}
    IN  IF hits = {} THEN [content |-> s, changed |-> FALSE]
        ELSE [content |-> Prefix(s, Min(hits)) \o newPattern
                              \o Suffix(s, DisabledAt(s, Min(hits), packageName)),
              changed |-> TRUE]

EnablePackage(s, packageName) ==
    LET newPattern == packageName \o EnableTrue
        matches == \E p \in 0..Len(s) : DisabledAt(s, p, packageName) # -1
    IN  IF ~matches THEN [content |-> s, changed |-> FALSE]
        ELSE [content |-> ReplaceAllFrom(s, 0, packageName, FalseLit, newPattern),
              changed |-> TRUE]

\* AddPackageToCategory splicing before it tests endPos: with endPos = -1 the
\* entry lands at startPos - 1 and the error is returned all the same.
AddPackageToCategorySpliceFirst(s, category, packageName) ==
    LET startLoc == FindCategoryStart(s, category)
    IN  IF startLoc = <<>> THEN [content |-> s, err |-> ErrCategoryNotFound(category)]
        ELSE LET startPos == startLoc[2]
                 endPos == Index(Suffix(s, startPos), ClosingMarker)
                 absoluteEndPos == startPos + endPos
                 packageContent ==
                     PackageIndent \o packageName \o EnableTrue \o PackageTail
             IN  [content |-> Prefix(s, absoluteEndPos) \o packageContent
                                  \o Suffix(s, absoluteEndPos),
                  err |-> IF endPos = -1 THEN ErrClosingBraceNotFound(category) ELSE Nil]

\* AddPackageToCategory splicing from startPos: the new entry replaces the
\* entries of the category.
AddPackageToCategoryOverwrite(s, category, packageName) ==
    LET startLoc == FindCategoryStart(s, category)
    IN  IF startLoc = <<>> THEN [content |-> s, err |-> ErrCategoryNotFound(category)]
        ELSE LET startPos == startLoc[2]
                 endPos == Index(Suffix(s, startPos), ClosingMarker)
             IN  IF endPos = -1
                 THEN [content |-> s, err |-> ErrClosingBraceNotFound(category)]
                 ELSE LET absoluteEndPos == startPos + endPos
                          packageContent ==
                              PackageIndent \o packageName \o EnableTrue \o PackageTail
                      IN  [content |-> Prefix(s, startPos) \o packageContent
                                           \o Suffix(s, absoluteEndPos),
                           err |-> Nil]

\* AddPackageToCategory looking for "};" from the start of the content, not
\* from startPos.
AddPackageToCategoryFromTop(s, category, packageName) ==
    LET startLoc == FindCategoryStart(s, category)
    IN  IF startLoc = <<>> THEN [content |-> s, err |-> ErrCategoryNotFound(category)]
        ELSE LET endPos == Index(s, ClosingMarker)
             IN  IF endPos = -1
                 THEN [content |-> s, err |-> ErrClosingBraceNotFound(category)]
                 ELSE LET packageContent ==
                              PackageIndent \o packageName \o EnableTrue \o PackageTail
                      IN  [content |-> Prefix(s, endPos) \o packageContent
                                           \o Suffix(s, endPos),
                           err |-> Nil]

\* AddPackageToCategory splicing at startPos, right after the opening marker,
\* as CreateCategory does.
AddPackageToCategoryAtStart(s, category, packageName) ==
    LET startLoc == FindCategoryStart(s, category)
    IN  IF startLoc = <<>> THEN [content |-> s, err |-> ErrCategoryNotFound(category)]
        ELSE LET startPos == startLoc[2]
                 endPos == Index(Suffix(s, startPos), ClosingMarker)
             IN  IF endPos = -1
                 THEN [content |-> s, err |-> ErrClosingBraceNotFound(category)]
                 ELSE LET packageContent ==
                              PackageIndent \o packageName \o EnableTrue \o PackageTail
                      IN  [content |-> Prefix(s, startPos) \o packageContent
                                           \o Suffix(s, startPos),
                           err |-> Nil]

\* AddPackageToCategory writing the new entry as disabled:
\* packageContent ends in ".enable = false;".
AddPackageToCategoryDisabled(s, category, packageName) ==
    LET startLoc == FindCategoryStart(s, category)
    IN  IF startLoc = <<>> THEN [content |-> s, err |-> ErrCategoryNotFound(category)]
        ELSE LET startPos == startLoc[2]
                 endPos == Index(Suffix(s, startPos), ClosingMarker)
             IN  IF endPos = -1
                 THEN [content |-> s, err |-> ErrClosingBraceNotFound(category)]
                 ELSE LET absoluteEndPos == startPos + endPos
                          packageContent ==
                              PackageIndent \o packageName \o DotEnable
                                  \o <<" ", "=", " ">> \o FalseLit \o <<";">>
                                  \o PackageTail
                      IN  [content |-> Prefix(s, absoluteEndPos) \o packageContent
                                           \o Suffix(s, absoluteEndPos),
                           err |-> Nil]

AddPackageToCategory(s, category, packageName) ==
    LET startLoc == FindCategoryStart(s, category)
    IN  IF startLoc = <<>> THEN [content |-> s, err |-> ErrCategoryNotFound(category)]
        ELSE LET startPos == startLoc[2]
                 endPos == Index(Suffix(s, startPos), ClosingMarker)
             IN  IF endPos = -1
                 THEN [content |-> s, err |-> ErrClosingBraceNotFound(category)]
                 ELSE LET absoluteEndPos == startPos + endPos
                          packageContent ==
                              PackageIndent \o packageName \o EnableTrue \o PackageTail
                      IN  [content |-> Prefix(s, absoluteEndPos) \o packageContent
                                           \o Suffix(s, absoluteEndPos),
                           err |-> Nil]

\* CreateCategory splicing at startLoc[0], the start of the match, in place of
\* startLoc[1]: the block lands in front of the container.
CreateCategoryAtMatchStart(s, category, packageName) ==
    LET startLoc == FindCategoryStart(s, apps)
    IN  IF startLoc = <<>> THEN [content |-> s, err |-> ErrAppsNotFound]
        ELSE LET insertPos == startLoc[1]
                 newCategory ==
                     CategoryIndent \o category \o CategoryOpen \o packageName
                         \o EnableTrue \o CategoryClose
             IN  [content |-> Prefix(s, insertPos) \o newCategory \o Suffix(s, insertPos),
                  err |-> Nil]

\* CreateCategory splicing in front of the last "}" of the content, where
\* EnsureAppsSectionExists splices: new blocks are appended, not prepended.
CreateCategoryAppend(s, category, packageName) ==
    LET startLoc == FindCategoryStart(s, apps)
    IN  IF startLoc = <<>> THEN [content |-> s, err |-> ErrAppsNotFound]
        ELSE LET insertPos == Max({startLoc[2], LastIndex(s, ClosingBrace)})
                 newCategory ==
                     CategoryIndent \o category \o CategoryOpen \o packageName
                         \o EnableTrue \o CategoryClose
             IN  [content |-> Prefix(s, insertPos) \o newCategory \o Suffix(s, insertPos),
                  err |-> Nil]

\* CreateCategory splicing one character early, in front of the "{" of the
\* container's opening marker.
CreateCategoryBeforeBrace(s, category, packageName) ==
    LET startLoc == FindCategoryStart(s, apps)
    IN  IF startLoc = <<>> THEN [content |-> s, err |-> ErrAppsNotFound]
        ELSE LET insertPos == startLoc[2] - 1
                 newCategory ==
                     CategoryIndent \o category \o CategoryOpen \o packageName
                         \o EnableTrue \o CategoryClose
             IN  [content |-> Prefix(s, insertPos) \o newCategory \o Suffix(s, insertPos),
                  err |-> Nil]

\* CreateCategory with a test for the category in front: it returns nil and
\* inserts nothing when the category already opens.
CreateCategoryUnlessExists(s, category, packageName) ==
    LET startLoc == FindCategoryStart(s, apps)
    IN  IF startLoc = <<>> THEN [content |-> s, err |-> ErrAppsNotFound]
        ELSE IF CategoryExists(s, category) THEN [content |-> s, err |-> Nil]
        ELSE LET insertPos == startLoc[2]
                 newCategory ==
                     CategoryIndent \o category \o CategoryOpen \o packageName
                         \o EnableTrue \o CategoryClose
             IN  [content |-> Prefix(s, insertPos) \o newCategory \o Suffix(s, insertPos),
                  err |-> Nil]

CreateCategory(s, category, packageName) ==
    LET startLoc == FindCategoryStart(s, apps)
    IN  IF startLoc = <<>> THEN [content |-> s, err |-> ErrAppsNotFound]
        ELSE LET insertPos == startLoc[2]
                 newCategory ==
                     CategoryIndent \o category \o CategoryOpen \o packageName
                         \o EnableTrue \o CategoryClose
             IN  [content |-> Prefix(s, insertPos) \o newCategory \o Suffix(s, insertPos),
                  err |-> Nil]

\* EnsureAppsSectionExists with its first test negated: it returns nil when
\* the container is absent and inserts a second one when it is present.
EnsureAppsSectionExistsNegated(s) ==
    IF ~CategoryExists(s, apps) THEN [content |-> s, err |-> Nil]
    ELSE LET lastBrace == LastIndex(s, ClosingBrace)
         IN  IF lastBrace = -1 THEN [content |-> s, err |-> ErrNoClosingBrace]
             ELSE [content |-> Prefix(s, lastBrace) \o appsSection \o Suffix(s, lastBrace),
                   err |-> Nil]

\* EnsureAppsSectionExists with strings.Index in the place of
\* strings.LastIndex: the container goes in front of the first "}".
EnsureAppsSectionExistsFirstBrace(s) ==
    IF CategoryExists(s, apps) THEN [content |-> s, err |-> Nil]
    ELSE LET lastBrace == Index(s, ClosingBrace)
         IN  IF lastBrace = -1 THEN [content |-> s, err |-> ErrNoClosingBrace]
             ELSE [content |-> Prefix(s, lastBrace) \o appsSection \o Suffix(s, lastBrace),
                   err |-> Nil]

\* EnsureAppsSectionExists keeping content[lastBrace+1:] behind the new
\* section: the last closing brace is replaced, not preceded.
EnsureAppsSectionExistsOverBrace(s) ==
    IF CategoryExists(s, apps) THEN [content |-> s, err |-> Nil]
    ELSE LET lastBrace == LastIndex(s, ClosingBrace)
         IN  IF lastBrace = -1 THEN [content |-> s, err |-> ErrNoClosingBrace]
             ELSE [content |-> Prefix(s, lastBrace) \o appsSection
                                   \o Suffix(s, lastBrace + 1),
                   err |-> Nil]

EnsureAppsSectionExists(s) ==
    IF CategoryExists(s, apps) THEN [content |-> s, err |-> Nil]
    ELSE LET lastBrace == LastIndex(s, ClosingBrace)
         IN  IF lastBrace = -1 THEN [content |-> s, err |-> ErrNoClosingBrace]
             ELSE [content |-> Prefix(s, lastBrace) \o appsSection \o Suffix(s, lastBrace),
                   err |-> Nil]

\* AddOrEnablePackage taking "EnablePackage changed nothing" for "the entry is
\* missing" and adding it as well.
AddOrEnablePackageFallThrough(s, category, packageName) ==
    IF CategoryExists(s, category)
    THEN LET e == EnablePackage(s, packageName)
             a == AddPackageToCategory(s, category, packageName)
         IN  IF PackageExistsInCategory(s, category, packageName) /\ e.changed
             THEN [content |-> e.content, err |-> Nil,
                   ran |-> <<[mutator |-> "EnablePackage", result |-> e.changed]>>]
             ELSE IF PackageExistsInCategory(s, category, packageName)
             THEN [content |-> a.content, err |-> Nil,
                   ran |-> <<[mutator |-> "EnablePackage", result |-> e.changed],
                             [mutator |-> "AddPackageToCategory", result |-> a.err]>>]
             ELSE [content |-> a.content, err |-> Nil,
                   ran |-> <<[mutator |-> "AddPackageToCategory", result |-> a.err]>>]
    ELSE LET r == CreateCategory(s, category, packageName)
         IN  [content |-> r.content, err |-> r.err,
              ran |-> <<[mutator |-> "CreateCategory", result |-> r.err]>>]

\* AddOrEnablePackage returning what AddPackageToCategory returned.
AddOrEnablePackageReturnsAddError(s, category, packageName) ==
    IF CategoryExists(s, category)
    THEN IF PackageExistsInCategory(s, category, packageName)
         THEN LET r == EnablePackage(s, packageName)
              IN  [content |-> r.content, err |-> Nil,
                   ran |-> <<[mutator |-> "EnablePackage", result |-> r.changed]>>]
         ELSE LET r == AddPackageToCategory(s, category, packageName)
              IN  [content |-> r.content, err |-> r.err,
                   ran |-> <<[mutator |-> "AddPackageToCategory", result |-> r.err]>>]
    ELSE LET r == CreateCategory(s, category, packageName)
         IN  [content |-> r.content, err |-> r.err,
              ran |-> <<[mutator |-> "CreateCategory", result |-> r.err]>>]

\* AddOrEnablePackage without the PackageExistsInCategory test: it adds the
\* entry whenever the category exists.
AddOrEnablePackageNoEntryTest(s, category, packageName) ==
    IF CategoryExists(s, category)
    THEN LET r == AddPackageToCategory(s, category, packageName)
         IN  [content |-> r.content, err |-> Nil,
              ran |-> <<[mutator |-> "AddPackageToCategory", result |-> r.err]>>]
    ELSE LET r == CreateCategory(s, category, packageName)
         IN  [content |-> r.content, err |-> r.err,
              ran |-> <<[mutator |-> "CreateCategory", result |-> r.err]>>]

\* ran: the mutators the call invoked, in order, each with the value it
\* returned; err: what the call itself returned.
AddOrEnablePackage(s, category, packageName) ==
    IF CategoryExists(s, category)
    THEN IF PackageExistsInCategory(s, category, packageName)
         THEN LET r == EnablePackage(s, packageName)
              IN  [content |-> r.content, err |-> Nil,
                   ran |-> <<[mutator |-> "EnablePackage", result |-> r.changed]>>]
         ELSE LET r == AddPackageToCategory(s, category, packageName)
              IN  [content |-> r.content, err |-> Nil,
                   ran |-> <<[mutator |-> "AddPackageToCategory", result |-> r.err]>>]
    ELSE LET r == CreateCategory(s, category, packageName)
         IN  [content |-> r.content, err |-> r.err,
              ran |-> <<[mutator |-> "CreateCategory", result |-> r.err]>>]

---------------------------------------------------------------------------
(* Documents a Config is constructed from (NewConfig).  The shapes are     *)
(* those of nixconfig_test.go, with vim in the place of chrome.            *)

Sp2 == <<" ", " ">>
Sp4 == <<" ", " ", " ", " ">>
OpenBrace == <<" ", "=", " ", "{", "\n">>

\* "    <name>.enable = <val>;\n"
Entry(packageName, val) ==
    Sp4 \o packageName \o DotEnable \o <<" ", "=", " ">> \o val \o <<";", "\n">>

\* "  <category> = {\n<body>  };\n"
Block(category, body) ==
    Sp2 \o category \o OpenBrace \o body \o Sp2 \o ClosingMarker \o <<"\n">>

\* "apps = {\n<body>}"
Container(body) == apps \o OpenBrace \o body \o <<"}">>

\* "{\n<body>}": a configuration with no apps container
TopLevel(body) == <<"{", "\n">> \o body \o <<"}">>

ContainerDocuments ==
    { Container(<<>>),
      Container(Block(browsers, Entry(vim, TrueLit))),
      Container(Block(browsers, Entry(firefox, FalseLit))),
      Container(Block(browsers, Entry(firefox, TrueLit))),
      Container(Block(editors, Entry(firefox, FalseLit))),
      Container(Block(browsers, Entry(firefox, FalseLit))
                \o Block(editors, Entry(firefox, FalseLit) \o Entry(vim, TrueLit))),
      Container(Block(editors, Entry(vim, FalseLit)) \o Block(browsers, <<>>)) }

\* apps={ / browsers  =  { / firefox.enable=false ;
WhitespaceDocument ==
    apps \o <<"=", "{", "\n">> \o Sp2 \o browsers \o <<" ", " ", "=", " ", " ", "{", "\n">>
        \o Sp4 \o firefox \o DotEnable \o <<"=">> \o FalseLit \o <<" ", ";", "\n">>
        \o Sp2 \o ClosingMarker \o <<"\n", "}">>

\* browsers opens and no "};" follows
UnclosedDocument == apps \o OpenBrace \o Sp2 \o browsers \o OpenBrace \o <<"}">>

NoContainerDocuments ==
    { <<"{", " ", "}">>,
      TopLevel(Block(editors, Entry(vim, FalseLit))),
      TopLevel(Block(browsers, Entry(firefox, TrueLit))) }

\* no closing brace anywhere
NoBraceDocuments == { <<>>, Sp2 \o browsers \o OpenBrace }

\* "myapps = {\n  webbrowsers = {\n  };\n}": sections whose names end in
\* apps and in browsers, and no section named apps or browsers
LongerNamesDocument ==
    <<"m", "y">> \o apps \o OpenBrace \o Sp2 \o <<"w", "e", "b">> \o browsers
        \o OpenBrace \o Sp2 \o ClosingMarker \o <<"\n", "}">>

Documents ==
    ContainerDocuments \cup {WhitespaceDocument, UnclosedDocument}
        \cup NoContainerDocuments \cup NoBraceDocuments \cup {LongerNamesDocument}

Categories == {browsers, editors}
Packages == {firefox, vim}

\* A category whose name ends in the name of another one, and the categories
\* a caller of AddOrEnablePackage chooses from when it is among them.
webbrowsers == <<"w", "e", "b">> \o browsers
LongerCategories == Categories \cup {webbrowsers}

---------------------------------------------------------------------------
(* The state machine: one Config, and the calls made on it so far.         *)

Call(op, category, packageName, r, ran, changed) ==
    [op |-> op, category |-> category, packageName |-> packageName,
     before |-> content, after |-> r.content, err |-> r.err,
     ran |-> ran, changed |-> changed]

\* A second Config, as a record of what the first one is in input, content
\* and log; NoPeer when there is none.
NoPeer == [input |-> <<>>, content |-> <<>>, log |-> <<>>]

\* No install command is running.
NoInstall == [pc |-> "none"]

\* MaxCalls calls are made in all, on the two Configs together.
CallsLeft == Len(log) + Len(peer.log) < MaxCalls

Init ==
    /\ input \in Documents
    /\ content = NewConfig(input)
    /\ log = <<>>
    /\ peer = NoPeer
    /\ install = NoInstall

DoAddOrEnablePackage(category, packageName) ==
    /\ CallsLeft
    /\ UNCHANGED <<input, peer, install>>
    /\ LET r == AddOrEnablePackage(content, category, packageName)
       IN  /\ content' = r.content
           /\ log' = Append(log, Call("AddOrEnablePackage", category, packageName,
                                      r, r.ran, FALSE))

DoCreateCategory(category, packageName) ==
    /\ CallsLeft
    /\ UNCHANGED <<input, peer, install>>
    /\ LET r == CreateCategory(content, category, packageName)
       IN  /\ content' = r.content
           /\ log' = Append(log, Call("CreateCategory", category, packageName,
                                      r, <<>>, FALSE))

DoAddPackageToCategory(category, packageName) ==
    /\ CallsLeft
    /\ UNCHANGED <<input, peer, install>>
    /\ LET r == AddPackageToCategory(content, category, packageName)
       IN  /\ content' = r.content
           /\ log' = Append(log, Call("AddPackageToCategory", category, packageName,
                                      r, <<>>, FALSE))

DoEnsureAppsSectionExists ==
    /\ CallsLeft
    /\ UNCHANGED <<input, peer, install>>
    /\ LET r == EnsureAppsSectionExists(content)
       IN  /\ content' = r.content
           /\ log' = Append(log, Call("EnsureAppsSectionExists", <<>>, <<>>,
                                      r, <<>>, FALSE))

DoEnablePackage(packageName) ==
    /\ CallsLeft
    /\ UNCHANGED <<input, peer, install>>
    /\ LET r == EnablePackage(content, packageName)
       IN  /\ content' = r.content
           /\ log' = Append(log, Call("EnablePackage", <<>>, packageName,
                                      [content |-> r.content, err |-> Nil],
                                      <<>>, r.changed))

Next ==
    \/ \E category \in Categories, packageName \in Packages :
           DoAddOrEnablePackage(category, packageName)
    \/ \E category \in Categories, packageName \in Packages :
           DoCreateCategory(category, packageName)
    \/ \E category \in Categories, packageName \in Packages :
           DoAddPackageToCategory(category, packageName)
    \/ DoEnsureAppsSectionExists
    \/ \E packageName \in Packages : DoEnablePackage(packageName)

Spec == Init /\ [][Next]_vars

\* The four mutators alone, called directly.
NextMutators ==
    \/ \E category \in Categories, packageName \in Packages :
           DoCreateCategory(category, packageName)
    \/ \E category \in Categories, packageName \in Packages :
           DoAddPackageToCategory(category, packageName)
    \/ DoEnsureAppsSectionExists
    \/ \E packageName \in Packages : DoEnablePackage(packageName)

SpecMutators == Init /\ [][NextMutators]_vars

---------------------------------------------------------------------------
(* Two Configs side by side: the first in input, content and log, the      *)
(* second in peer.  A method called on one Config reads and assigns the    *)
(* field content of its receiver and nothing else.                         *)

\* The second Config is built from the input of the first or from an empty
\* container.
InitTwo ==
    /\ input \in { WhitespaceDocument,
                   TopLevel(Block(editors, Entry(vim, FalseLit))),
                   Container(Block(browsers, Entry(firefox, FalseLit))) }
    /\ content = NewConfig(input)
    /\ log = <<>>
    /\ \E d \in {input, Container(<<>>)} :
           peer = [input |-> d, content |-> NewConfig(d), log |-> <<>>]
    /\ install = NoInstall

PeerCall(op, category, packageName, r, ran, changed) ==
    [op |-> op, category |-> category, packageName |-> packageName,
     before |-> peer.content, after |-> r.content, err |-> r.err,
     ran |-> ran, changed |-> changed]

PeerAddOrEnablePackage(category, packageName) ==
    /\ CallsLeft
    /\ UNCHANGED <<input, content, log, install>>
    /\ LET r == AddOrEnablePackage(peer.content, category, packageName)
       IN  peer' = [peer EXCEPT !.content = r.content,
                                !.log = Append(@, PeerCall("AddOrEnablePackage", category,
                                                           packageName, r, r.ran, FALSE))]

PeerEnsureAppsSectionExists ==
    /\ CallsLeft
    /\ UNCHANGED <<input, content, log, install>>
    /\ LET r == EnsureAppsSectionExists(peer.content)
       IN  peer' = [peer EXCEPT !.content = r.content,
                                !.log = Append(@, PeerCall("EnsureAppsSectionExists", <<>>,
                                                           <<>>, r, <<>>, FALSE))]

\* PeerEnablePackage with the content kept in one place for all Configs: the
\* first Config reads what the call on the second one wrote.
PeerEnablePackageShared(packageName) ==
    /\ CallsLeft
    /\ UNCHANGED <<input, log, install>>
    /\ LET r == EnablePackage(peer.content, packageName)
       IN  /\ content' = r.content
           /\ peer' = [peer EXCEPT !.content = r.content,
                                   !.log = Append(@, PeerCall("EnablePackage", <<>>, packageName,
                                                              [content |-> r.content, err |-> Nil],
                                                              <<>>, r.changed))]

PeerEnablePackage(packageName) ==
    /\ CallsLeft
    /\ UNCHANGED <<input, content, log, install>>
    /\ LET r == EnablePackage(peer.content, packageName)
       IN  peer' = [peer EXCEPT !.content = r.content,
                                !.log = Append(@, PeerCall("EnablePackage", <<>>, packageName,
                                                           [content |-> r.content, err |-> Nil],
                                                           <<>>, r.changed))]

\* Calls on the two Configs in any order, MaxCalls of them in all.
NextTwo ==
    \/ \E category \in Categories, packageName \in Packages :
           DoAddOrEnablePackage(category, packageName)
    \/ DoEnsureAppsSectionExists
    \/ \E packageName \in Packages : DoEnablePackage(packageName)
    \/ \E category \in Categories, packageName \in Packages :
           PeerAddOrEnablePackage(category, packageName)
    \/ PeerEnsureAppsSectionExists
    \/ \E packageName \in Packages : PeerEnablePackage(packageName)

SpecTwo == InitTwo /\ [][NextTwo]_vars

\* Every section name of the model, the container included.
SectionNames == Categories \cup {apps}

\* The read-only methods, as calls: the content stays as it is and the value
\* returned is recorded as result.
Probe(op, category, packageName, result) ==
    [op |-> op, category |-> category, packageName |-> packageName,
     before |-> content, after |-> content, err |-> Nil,
     ran |-> <<>>, changed |-> FALSE, result |-> result]

DoCategoryExists(category) ==
    /\ CallsLeft
    /\ UNCHANGED <<input, content, peer, install>>
    /\ log' = Append(log, Probe("CategoryExists", category, <<>>,
                                 CategoryExists(content, category)))

DoPackageExistsInCategory(category, packageName) ==
    /\ CallsLeft
    /\ UNCHANGED <<input, content, peer, install>>
    /\ log' = Append(log, Probe("PackageExistsInCategory", category, packageName,
                                 PackageExistsInCategory(content, category, packageName)))

DoContent ==
    /\ CallsLeft
    /\ UNCHANGED <<input, content, peer, install>>
    /\ log' = Append(log, Probe("Content", <<>>, <<>>, Content(content)))

\* The probes, between calls of the two methods install uses.
NextProbe ==
    \/ \E category \in SectionNames : DoCategoryExists(category)
    \/ \E category \in Categories, packageName \in Packages :
           DoPackageExistsInCategory(category, packageName)
    \/ DoContent
    \/ \E category \in LongerCategories, packageName \in Packages :
           DoAddOrEnablePackage(category, packageName)
    \/ DoEnsureAppsSectionExists

SpecProbe == Init /\ [][NextProbe]_vars

---------------------------------------------------------------------------
(* The host loop of the install command: for each selected host, read its  *)
(* configuration.nix, build a Config from it, EnsureAppsSectionExists,     *)
(* AddOrEnablePackage, write Content() back; return at the first error.    *)
(* install holds the files, the selection, the loop's position and the     *)
(* steps taken so far.                                                     *)

\* The hosts under NIX_HOSTS_DIR.
Hosts == 1..MaxHosts

\* What a host's configuration.nix holds before the command runs: a
\* container with a disabled entry, a configuration with no container, and a
\* file with no closing brace.
HostDocuments ==
    { Container(Block(browsers, Entry(firefox, FalseLit))),
      TopLevel(Block(editors, Entry(vim, FalseLit))),
      Sp2 \o browsers \o OpenBrace }

\* selectedHosts: the hosts ticked in the form, each at most once.
Selections ==
    {sel \in UNION {[1..n -> Hosts] : n \in 0..MaxHosts} :
        \A i \in DOMAIN sel, j \in DOMAIN sel : sel[i] = sel[j] => i = j}

\* The state at "for _, host := range selectedHosts".
InitInstall ==
    /\ input = <<>> /\ content = <<>> /\ log = <<>> /\ peer = NoPeer
    /\ \E files \in [Hosts -> HostDocuments], sel \in Selections,
          category \in Categories :
           install = [pc |-> IF sel = <<>> THEN "done" ELSE "read",
                      selectedHosts |-> sel,
                      selectedFolder |-> category,
                      PName |-> firefox,
                      initial |-> files,
                      files |-> files,
                      at |-> 1,
                      nixcfg |-> <<>>,
                      steps |-> <<>>]

\* The host of the current iteration.
Host == install.selectedHosts[install.at]

Step(name, ok) == [host |-> Host, step |-> name, ok |-> ok]

\* data, err := os.ReadFile(fullHostPath); nixcfg := NewConfig(string(data))
InstallReadFile ==
    /\ install.pc = "read"
    /\ UNCHANGED <<input, content, log, peer>>
    /\ \E ok \in BOOLEAN :
           install' = [install EXCEPT
                          !.pc = IF ok THEN "ensure" ELSE "returned",
                          !.nixcfg = IF ok THEN NewConfig(install.files[Host]) ELSE @,
                          !.steps = Append(@, Step("ReadFile", ok))]

\* err = nixcfg.EnsureAppsSectionExists()
InstallEnsureAppsSectionExists ==
    /\ install.pc = "ensure"
    /\ UNCHANGED <<input, content, log, peer>>
    /\ LET r == EnsureAppsSectionExists(install.nixcfg)
       IN  install' = [install EXCEPT
                          !.pc = IF r.err = Nil THEN "upsert" ELSE "returned",
                          !.nixcfg = r.content,
                          !.steps = Append(@, Step("EnsureAppsSectionExists",
                                                   r.err = Nil))]

\* err = nixcfg.AddOrEnablePackage(selectedFolder, selectedPkg.PName)
InstallAddOrEnablePackage ==
    /\ install.pc = "upsert"
    /\ UNCHANGED <<input, content, log, peer>>
    /\ LET r == AddOrEnablePackage(install.nixcfg, install.selectedFolder,
                                   install.PName)
       IN  install' = [install EXCEPT
                          !.pc = IF r.err = Nil THEN "write" ELSE "returned",
                          !.nixcfg = r.content,
                          !.steps = Append(@, Step("AddOrEnablePackage",
                                                   r.err = Nil))]

\* What a file that held old can hold after os.WriteFile of data has failed:
\* old when the open failed, a prefix of data of any length when a write
\* failed after the open truncated the file, all of data when the close
\* failed.
FailedWrite(old, data) == {old} \cup {Prefix(data, n) : n \in 0..Len(data)}

\* InstallWriteFile going on to the next host when os.WriteFile fails
\* ("continue" in place of "return").
InstallWriteFileContinue ==
    /\ install.pc = "write"
    /\ UNCHANGED <<input, content, log, peer>>
    /\ \E ok \in BOOLEAN :
       \E left \in IF ok THEN {Content(install.nixcfg)}
                   ELSE FailedWrite(install.files[Host], Content(install.nixcfg)) :
           install' = [install EXCEPT
                          !.pc = IF install.at = Len(install.selectedHosts)
                                 THEN "done" ELSE "read",
                          !.files[Host] = left,
                          !.at = @ + 1,
                          !.steps = Append(@, Step("WriteFile", ok))]

\* err = os.WriteFile(fullHostPath, []byte(nixcfg.Content()), 0o644), then
\* the next iteration.  A failed write leaves the file in one of the states
\* of FailedWrite.
InstallWriteFile ==
    /\ install.pc = "write"
    /\ UNCHANGED <<input, content, log, peer>>
    /\ \E ok \in BOOLEAN :
       \E left \in IF ok THEN {Content(install.nixcfg)}
                   ELSE FailedWrite(install.files[Host], Content(install.nixcfg)) :
           install' = [install EXCEPT
                          !.pc = IF ~ok THEN "returned"
                                 ELSE IF install.at = Len(install.selectedHosts)
                                 THEN "done" ELSE "read",
                          !.files[Host] = left,
                          !.at = IF ok THEN @ + 1 ELSE @,
                          !.steps = Append(@, Step("WriteFile", ok))]

NextInstall ==
    \/ InstallReadFile
    \/ InstallEnsureAppsSectionExists
    \/ InstallAddOrEnablePackage
    \/ InstallWriteFile

SpecInstall == InitInstall /\ [][NextInstall]_vars

---------------------------------------------------------------------------
(* Vocabulary of the properties.                                           *)

\* The call that led to the current state.  Every call that is ever made is
\* the last call of the state it leads to, so a property of the last call that
\* holds in every reachable state holds of every call.
LastCall == IF log = <<>> THEN {} ELSE {log[Len(log)]}
LastUpsert == {c \in LastCall : c.op = "AddOrEnablePackage"}

\* The last two calls, as the index of the first of them.
LastPair == IF Len(log) < 2 THEN {} ELSE {Len(log) - 1}

\* The text of a category: from the end of its opening marker to the first
\* "};" after it (the range [start, end) of the specification); <<>> when the
\* category does not open or is not closed.
Section(s, category) ==
    LET startLoc == FindCategoryStart(s, category)
    IN  IF startLoc = <<>> THEN <<>>
        ELSE LET endPos == Index(Suffix(s, startLoc[2]), ClosingMarker)
             IN  IF endPos = -1 THEN <<>>
                 ELSE SubSeq(s, startLoc[2] + 1, startLoc[2] + endPos)

\* The text t declares  name.enable = val;  (any spacing).
Declares(t, name, val) == \E p \in 0..Len(t) : DeclAt(t, p, name, val) # -1

\* The declaration of packageName inside category reads enabled.
ReadsEnabled(s, category, packageName) ==
    /\ Declares(Section(s, category), packageName, TrueLit)
    /\ ~Declares(Section(s, category), packageName, FalseLit)

ReadsDisabled(s, category, packageName) ==
    Declares(Section(s, category), packageName, FalseLit)

\* C1: idempotence of upsert: a second AddOrEnablePackage(C, E) right after
\* the first leaves the content exactly as the first left it.
C1_UpsertIdempotent ==
    \A i \in LastPair :
        ( /\ log[i].op = "AddOrEnablePackage"
          /\ log[i + 1].op = "AddOrEnablePackage"
          /\ log[i + 1].category = log[i].category
          /\ log[i + 1].packageName = log[i].packageName )
        => log[i + 1].after = log[i].after

\* C2: postcondition of upsert: after AddOrEnablePackage(C, E) returns nil,
\* C exists, E exists in C and E's declaration in C reads enabled.
C2_UpsertPostcondition ==
    \A c \in LastUpsert :
        c.err = Nil =>
            /\ CategoryExists(c.after, c.category)
            /\ PackageExistsInCategory(c.after, c.category, c.packageName)
            /\ ReadsEnabled(c.after, c.category, c.packageName)

\* C3: error propagation: AddOrEnablePackage returns the error of the one
\* mutator it ran (nil after EnablePackage, changed or not).
C3_UpsertReturnsMutatorError ==
    \A c \in LastUpsert :
        /\ Len(c.ran) = 1
        /\ c.err = ( IF c.ran[1].mutator = "EnablePackage" THEN Nil
                     ELSE c.ran[1].result )

\* C4: no partial mutation on failure: a call of AddPackageToCategory,
\* CreateCategory, EnsureAppsSectionExists or AddOrEnablePackage that returns
\* an error leaves the content as it was before the call.
C4_FailureLeavesContent ==
    \A c \in LastCall :
        ( /\ c.op \in {"AddPackageToCategory", "CreateCategory",
                       "EnsureAppsSectionExists", "AddOrEnablePackage"}
          /\ c.err # Nil )
        => c.after = c.before

\* AddPackageToCategory on an absent category and on an unclosed one, and a
\* failed CreateCategory, have each happened.
C4_Witness ==
    /\ Len(log) = 2
    /\ log[1].op = "AddPackageToCategory"
    /\ log[1].err \in {ErrCategoryNotFound(log[1].category),
                       ErrClosingBraceNotFound(log[1].category)}
    /\ log[2].op \in {"CreateCategory", "AddOrEnablePackage", "EnsureAppsSectionExists"}
    /\ log[2].err # Nil

Values == {TrueLit, FalseLit}

\* The content s with the disabled declarations of packageName rewritten to
\* enabled inside the section of category and nowhere else.
EnabledOnlyIn(s, category, packageName) ==
    LET startPos == FindCategoryStart(s, category)[2]
        body == Section(s, category)
    IN  Prefix(s, startPos)
            \o ReplaceAllFrom(body, 0, packageName, FalseLit, packageName \o EnableTrue)
            \o Suffix(s, startPos + Len(body))

\* C5: frame of the enable branch: when E is declared disabled in C,
\* AddOrEnablePackage(C, E) makes it read enabled and changes nothing else:
\* the rest of the text is the same and no other (category, entry) changes
\* its declared value.
C5_EnableBranchFrame ==
    \A c \in LastUpsert :
        ReadsDisabled(c.before, c.category, c.packageName) =>
            /\ ReadsEnabled(c.after, c.category, c.packageName)
            /\ c.after = EnabledOnlyIn(c.before, c.category, c.packageName)
            /\ \A n \in Categories, e \in Packages, v \in Values :
                   <<n, e>> # <<c.category, c.packageName>> =>
                       ( Declares(Section(c.after, n), e, v)
                           <=> Declares(Section(c.before, n), e, v) )

\* C6: enable is monotonic: an AddOrEnablePackage(C, E) made when E reads
\* enabled in C leaves it reading enabled, so no sequence of them disables it.
C6_EnableMonotonic ==
    \A c \in LastUpsert :
        ReadsEnabled(c.before, c.category, c.packageName)
            => ReadsEnabled(c.after, c.category, c.packageName)

\* E was disabled in C, a first AddOrEnablePackage(C, E) enabled it and a
\* second one found it enabled.
C6_Witness ==
    /\ Len(log) = 2
    /\ log[1].op = "AddOrEnablePackage" /\ log[2].op = "AddOrEnablePackage"
    /\ log[1].category = log[2].category
    /\ log[1].packageName = log[2].packageName
    /\ ReadsDisabled(log[1].before, log[1].category, log[1].packageName)
    /\ ReadsEnabled(log[2].before, log[2].category, log[2].packageName)
    /\ ReadsEnabled(log[2].after, log[2].category, log[2].packageName)

\* C7: dispatch: AddOrEnablePackage(C, E) runs exactly one mutator, chosen by
\* the two probes on the content before the call, the content after is what
\* that mutator makes of it, and the enable branch returns nil.
C7_UpsertDispatch ==
    \A c \in LastUpsert :
        LET ex == CategoryExists(c.before, c.category)
            pe == PackageExistsInCategory(c.before, c.category, c.packageName)
        IN  /\ Len(c.ran) = 1
            /\ (c.ran[1].mutator = "CreateCategory") <=> ~ex
            /\ (c.ran[1].mutator = "AddPackageToCategory") <=> (ex /\ ~pe)
            /\ (c.ran[1].mutator = "EnablePackage") <=> (ex /\ pe)
            /\ c.ran[1].mutator = "CreateCategory" =>
                   c.after = CreateCategory(c.before, c.category, c.packageName).content
            /\ c.ran[1].mutator = "AddPackageToCategory" =>
                   c.after = AddPackageToCategory(c.before, c.category,
                                                  c.packageName).content
            /\ c.ran[1].mutator = "EnablePackage" =>
                   /\ c.after = EnablePackage(c.before, c.packageName).content
                   /\ c.err = Nil

\* A first call took the create branch; a second took the enable branch,
\* where EnablePackage changed nothing, and returned nil.
C7_Witness ==
    /\ Len(log) = 2
    /\ log[1].op = "AddOrEnablePackage" /\ log[2].op = "AddOrEnablePackage"
    /\ log[1].ran = <<[mutator |-> "CreateCategory", result |-> Nil]>>
    /\ log[2].ran = <<[mutator |-> "EnablePackage", result |-> FALSE]>>
    /\ log[2].err = Nil

\* The category opens and a "};" follows its opening marker.
Closed(s, category) ==
    /\ CategoryExists(s, category)
    /\ Index(Suffix(s, FindCategoryStart(s, category)[2]), ClosingMarker) # -1

\* C8: sibling retention on add: when C exists, is closed and does not declare
\* E, AddOrEnablePackage(C, E) adds an enabled E inside C, and every (section,
\* entry) that had a declaration keeps it with the same value.
C8_AddRetainsSiblings ==
    \A c \in LastUpsert :
        ( /\ Closed(c.before, c.category)
          /\ ~PackageExistsInCategory(c.before, c.category, c.packageName) )
        => /\ Declares(Section(c.after, c.category), c.packageName, TrueLit)
           /\ \A n \in SectionNames :
                  LET was == Section(c.before, n)
                      is == Section(c.after, n)
                  IN  \A e \in Packages :
                          (\E v \in Values : Declares(was, e, v)) =>
                              \A v \in Values :
                                  Declares(is, e, v) <=> Declares(was, e, v)

\* An entry was added to a category that already declared another one.
C8_Witness ==
    \E c \in LastUpsert :
        /\ Closed(c.before, c.category)
        /\ ~PackageExistsInCategory(c.before, c.category, c.packageName)
        /\ \E e \in Packages \ {c.packageName} :
               /\ Declares(Section(c.before, c.category), e, TrueLit)
               /\ Declares(Section(c.after, c.category), e, TrueLit)
        /\ Declares(Section(c.after, c.category), c.packageName, TrueLit)

\* Offset of the "}" that closes the "{" ending at offset p (brace depth
\* counted from p), or -1: the container's own closing marker.
MatchingClose(s, p) ==
    LET opens == {k \in (p + 1)..Len(s) : s[k] = "{"}
        closes == {k \in (p + 1)..Len(s) : s[k] = "}"}
        hits == {k \in closes :
                    Cardinality({o \in opens : o < k})
                        = Cardinality({c \in closes : c < k})}
    IN  IF hits = {} THEN -1 ELSE Min(hits) - 1

\* Only white space.
Blank(t) == \A k \in 1..Len(t) : IsSpace(t[k])

\* t is one complete block: the opening marker of category, one declaration
\* packageName.enable = true; and the closing marker "};", white space apart.
CompleteBlock(t, category, packageName) ==
    LET open == FindCategoryStart(t, category)
    IN  /\ open # <<>>
        /\ Blank(Prefix(t, open[1]))
        /\ open[1] + Len(category) <= open[2]
        /\ LET body == Section(t, category)
               d == Index(body, packageName \o DotEnable)
           IN  /\ d # -1
               /\ Blank(Prefix(body, d))
               /\ DeclAt(body, d, packageName, TrueLit) # -1
               /\ Blank(Suffix(body, DeclAt(body, d, packageName, TrueLit)))
               /\ Blank(Suffix(t, open[2] + Len(body) + Len(ClosingMarker)))

\* The last call, when it runs CreateCategory(C, E): a direct call, or an
\* AddOrEnablePackage(C, E) made when C is absent.
LastCreation ==
    {c \in LastCall : \/ c.op = "CreateCategory"
                   \/ /\ c.op = "AddOrEnablePackage"
                      /\ ~CategoryExists(c.before, c.category)}

\* What C9 says of every creation but the entry probe: the error exactly when
\* apps does not open, else one complete block spliced right after the
\* container's opening marker, C exists, the block is inside the container.
CreationSplices(c) ==
    LET appsLoc == FindCategoryStart(c.before, apps)
    IN  /\ (c.err = ErrAppsNotFound) <=> (appsLoc = <<>>)
        /\ (c.err = Nil) <=> (appsLoc # <<>>)
        /\ c.err = Nil =>
               LET a == appsLoc[2]
                   n == Len(c.after) - Len(c.before)
                   block == SubSeq(c.after, a + 1, a + n)
               IN  /\ n > 0
                   /\ c.after = Prefix(c.before, a) \o block \o Suffix(c.before, a)
                   /\ CompleteBlock(block, c.category, c.packageName)
                   /\ CategoryExists(c.after, c.category)
                   /\ FindCategoryStart(c.after, apps) = appsLoc
                   /\ MatchingClose(c.before, a) # -1 =>
                          MatchingClose(c.after, a) = MatchingClose(c.before, a) + n

\* C9 as stated: every creation also leaves entryExists(C, E) true, the block
\* the probes find for C being the one inside the container.
C9_CreateSectionAsStated ==
    \A c \in LastCreation :
        /\ CreationSplices(c)
        /\ c.err = Nil =>
               /\ PackageExistsInCategory(c.after, c.category, c.packageName)
               /\ FindCategoryStart(c.after, c.category)[1]
                      >= FindCategoryStart(c.after, apps)[2]

\* No opening marker of category starts before offset p.
OpensOnlyFrom(s, category, p) ==
    \A q \in 0..(p - 1) : CategoryStartAt(s, q, category) = -1

\* C9, amended: as stated, except that entryExists(C, E) and the place of the
\* block the probes find are claimed only when no opening marker of C starts
\* before the end of the container's opening marker (so always for upsert).
C9_CreateSection ==
    \A c \in LastCreation :
        /\ CreationSplices(c)
        /\ ( /\ c.err = Nil
             /\ OpensOnlyFrom(c.before, c.category,
                              FindCategoryStart(c.before, apps)[2]) )
           => /\ PackageExistsInCategory(c.after, c.category, c.packageName)
              /\ FindCategoryStart(c.after, c.category)[1]
                     >= FindCategoryStart(c.after, apps)[2]
        /\ ( c.op = "AddOrEnablePackage" /\ c.err = Nil )
           => PackageExistsInCategory(c.after, c.category, c.packageName)

\* AddOrEnablePackage created C, then CreateCategory was called for the same
\* C and another entry: a second block, in front, which the probe finds.
C9_Witness ==
    /\ Len(log) = 2
    /\ log[1].op = "AddOrEnablePackage" /\ log[1].err = Nil
    /\ log[1].ran[1].mutator = "CreateCategory"
    /\ log[2].op = "CreateCategory" /\ log[2].err = Nil
    /\ log[2].category = log[1].category
    /\ log[2].packageName # log[1].packageName
    /\ PackageExistsInCategory(log[2].after, log[2].category, log[2].packageName)
    /\ ~PackageExistsInCategory(log[2].after, log[2].category, log[1].packageName)

\* EnsureAppsSectionExists on a document with no container and a closing
\* brace, followed at once by AddOrEnablePackage: the pairs C10 is about.
EnsureThenUpsert ==
    {i \in LastPair :
        /\ log[i].op = "EnsureAppsSectionExists"
        /\ log[i + 1].op = "AddOrEnablePackage"
        /\ ~CategoryExists(log[i].before, apps)
        /\ LastIndex(log[i].before, ClosingBrace) # -1}

\* Both calls return nil; in the result the container's opening marker
\* precedes C's block, which ends before the container's own closing marker.
ContainerBeforeCategory(i) ==
    LET res == log[i + 1].after
        appsLoc == FindCategoryStart(res, apps)
        catLoc == FindCategoryStart(res, log[i + 1].category)
    IN  /\ log[i].err = Nil
        /\ log[i + 1].err = Nil
        /\ appsLoc # <<>> /\ catLoc # <<>>
        /\ appsLoc[2] <= catLoc[1]
        /\ Closed(res, log[i + 1].category)
        /\ MatchingClose(res, appsLoc[2]) # -1
        /\ catLoc[2] + Len(Section(res, log[i + 1].category)) + Len(ClosingMarker)
               <= MatchingClose(res, appsLoc[2])

\* C10 as stated: for every document with no container and a closing brace.
C10_ContainerBeforeCategoryAsStated ==
    \A i \in EnsureThenUpsert : ContainerBeforeCategory(i)

\* C10, amended: for those of these documents in which C still does not open
\* once EnsureAppsSectionExists has returned.
C10_ContainerBeforeCategory ==
    \A i \in EnsureThenUpsert :
        /\ log[i].err = Nil
        /\ log[i + 1].err = Nil
        /\ ~CategoryExists(log[i].after, log[i + 1].category)
               => ContainerBeforeCategory(i)

\* The container was inserted into a document that had none, and the category
\* was then created inside it.
C10_Witness ==
    \E i \in EnsureThenUpsert :
        /\ log[i].after # log[i].before
        /\ ~CategoryExists(log[i].after, log[i + 1].category)
        /\ log[i + 1].ran[1].mutator = "CreateCategory"
        /\ ContainerBeforeCategory(i)

\* The offsets at which the literal lit occurs in s.
Offsets(s, lit) == {p \in 0..Len(s) : MatchLit(s, p, lit)}

\* The characters of s at the offsets a .. b - 1 are all whitespace.
AllSpace(s, a, b) == \A k \in (a + 1)..b : IsSpace(s[k])

\* The opening markers of name in s, in the words of the specification: name,
\* zero or more whitespace characters, "=", zero or more whitespace
\* characters, "{".  Each as <<offset of the name, offset just past "{">>.
Markers(s, name) ==
    LET names == Offsets(s, name)
        equals == Offsets(s, <<"=">>)
        braces == Offsets(s, <<"{">>)
    IN  IF names = {} THEN {}
        ELSE {m \in names \X {r + 1 : r \in braces} :
                 \E q \in equals :
                     /\ m[1] + Len(name) <= q
                     /\ q + 1 <= m[2] - 1
                     /\ AllSpace(s, m[1] + Len(name), q)
                     /\ AllSpace(s, q + 1, m[2] - 1)}

\* name opens in s.
Opens(s, name) == Markers(s, name) # {}

\* The opening marker of name: of its first occurrence.
OpeningMarker(s, name) ==
    LET ms == Markers(s, name)
    IN  CHOOSE m \in ms : \A o \in ms : m[1] <= o[1]

\* The offsets of the "};" of s that lie at or after offset p.
ClosingMarkersFrom(s, p) == {e \in Offsets(s, ClosingMarker) : e >= p}

\* A "};" occurs after the opening marker of name.
ClosesAfterMarker(s, name) ==
    Opens(s, name) /\ ClosingMarkersFrom(s, OpeningMarker(s, name)[2]) # {}

LastAdd == {c \in LastCall : c.op = "AddPackageToCategory"}

\* C11: error conditions of AddPackageToCategory(C, E): "category not found"
\* exactly when C does not open; "closing brace not found" exactly when C
\* opens and no "};" occurs anywhere after its opening marker; nil otherwise.
C11_AddErrors ==
    \A c \in LastAdd :
        /\ (c.err = ErrCategoryNotFound(c.category)) <=> ~Opens(c.before, c.category)
        /\ (c.err = ErrClosingBraceNotFound(c.category))
               <=> ( Opens(c.before, c.category)
                     /\ ~ClosesAfterMarker(c.before, c.category) )
        /\ (c.err = Nil) <=> ClosesAfterMarker(c.before, c.category)

\* AddPackageToCategory has failed on a category that opens with a "};" in
\* front of its opening marker (of a block created just before) and none
\* after it.
C11_Witness ==
    /\ Len(log) = 2
    /\ log[1].op = "CreateCategory"
    /\ log[2].op = "AddPackageToCategory"
    /\ log[2].err = ErrClosingBraceNotFound(log[2].category)
    /\ Opens(log[2].before, log[2].category)
    /\ Offsets(log[2].before, ClosingMarker) # {}

\* The offset of the first "};" after the opening marker of name.
FirstClose(s, name) == Min(ClosingMarkersFrom(s, OpeningMarker(s, name)[2]))

\* The canonical declaration  name.enable = true;
Canonical(name) == name \o DotEnable \o <<" ", "=", " ">> \o TrueLit \o <<";">>

\* t is one canonical declaration of name that starts at offset a of t, with
\* nothing but white space around it.
OneDeclarationAt(t, a, name) ==
    /\ MatchLit(t, a, Canonical(name))
    /\ Blank(Prefix(t, a))
    /\ Blank(Suffix(t, a + Len(Canonical(name))))

\* C12: placement of AddPackageToCategory(C, E): when it returns nil it has
\* inserted exactly one declaration  E.enable = true;  at the first "};" that
\* follows C's opening marker and touched nothing else, so the declaration
\* lies inside the range [start, end) of C and PackageExistsInCategory(C, E)
\* is true afterwards.
C12_AddPlacement ==
    \A c \in LastAdd :
        c.err = Nil =>
            LET e == FirstClose(c.before, c.category)
                n == Len(c.after) - Len(c.before)
                inserted == SubSeq(c.after, e + 1, e + n)
                marker == OpeningMarker(c.after, c.category)
                declarations == Offsets(c.after, Canonical(c.packageName))
            IN  /\ n > 0
                /\ Prefix(c.after, e) = Prefix(c.before, e)
                /\ Suffix(c.after, e + n) = Suffix(c.before, e)
                /\ \E a \in Offsets(inserted, Canonical(c.packageName)) :
                       OneDeclarationAt(inserted, a, c.packageName)
                /\ Cardinality(declarations)
                       = Cardinality(Offsets(c.before, Canonical(c.packageName))) + 1
                /\ marker = OpeningMarker(c.before, c.category)
                /\ Min(ClosingMarkersFrom(c.after, marker[2])) = e + n
                /\ \E a \in declarations :
                       /\ marker[2] <= a
                       /\ a + Len(Canonical(c.packageName)) <= e + n
                       /\ e <= a
                /\ PackageExistsInCategory(c.after, c.category, c.packageName)

\* AddPackageToCategory has added an entry to a category that declared
\* another one, in a document with a second category behind it.
C12_Witness ==
    \E c \in LastAdd :
        /\ c.err = Nil
        /\ \E other \in Packages \ {c.packageName} :
               Declares(Section(c.before, c.category), other, TrueLit)
        /\ Cardinality(Offsets(c.before, ClosingMarker)) >= 2
        /\ ~PackageExistsInCategory(c.before, c.category, c.packageName)

\* The call log[i] created a category that did not open before it.
CreatedNew(i) ==
    /\ log[i].op \in {"CreateCategory", "AddOrEnablePackage"}
    /\ log[i].err = Nil
    /\ ~Opens(log[i].before, log[i].category)

\* The calls from log[i] on are all creations of categories that were new:
\* log[i], ..., log[Len(log)] is a sequence of successful creations of
\* distinct new categories.
CreationsFrom(i) == \A k \in i..Len(log) : CreatedNew(k)

\* The sections that open inside the container at or after offset p of s.
SiblingsFrom(s, p) ==
    {n \in Categories : Opens(s, n) /\ OpeningMarker(s, n)[1] >= p}

\* C13: ordering of created sections: after a sequence of successful
\* creations (CreateCategory, or AddOrEnablePackage of an absent category) of
\* distinct new categories, the blocks stand in the container in reverse
\* order of creation: the one created last is the first thing after the
\* container's opening marker, ahead of the ones created before it and of
\* every section that was in the container before.
C13_CreationOrder ==
    (log # <<>> /\ CreatedNew(Len(log))) =>
    \A i \in 1..Len(log) :
        CreationsFrom(i) =>
            /\ Opens(content, apps)
            /\ LET a == OpeningMarker(content, apps)[2]
                   at == [n \in {n \in Categories : Opens(content, n)}
                             |-> OpeningMarker(content, n)[1]]
               IN  /\ \A k \in i..Len(log) : log[k].category \in DOMAIN at
                   /\ Blank(SubSeq(content, a + 1, at[log[Len(log)].category]))
                   /\ \A j, k \in i..Len(log) :
                          j < k => at[log[k].category] < at[log[j].category]
                   /\ \A k \in i..Len(log) :
                          \A n \in SiblingsFrom(log[k].before,
                                                OpeningMarker(log[k].before, apps)[2]) :
                              at[log[k].category] < at[n]

\* Two new categories have been created one after the other, one by
\* CreateCategory and one by AddOrEnablePackage, the second in a container
\* that held the block of the first.
C13_Witness ==
    /\ Len(log) = 2
    /\ CreatedNew(1)
    /\ CreatedNew(2)
    /\ log[1].op # log[2].op
    /\ log[1].category
           \in SiblingsFrom(log[2].before, OpeningMarker(log[2].before, apps)[2])

LastEnsure == {c \in LastCall : c.op = "EnsureAppsSectionExists"}

\* t is an empty block of name: its opening marker and a "};" with nothing but
\* white space in front, between and behind.
EmptyBlock(t, name) ==
    /\ Opens(t, name)
    /\ Blank(Prefix(t, OpeningMarker(t, name)[1]))
    /\ ClosesAfterMarker(t, name)
    /\ Blank(SubSeq(t, OpeningMarker(t, name)[2] + 1, FirstClose(t, name)))
    /\ Blank(Suffix(t, FirstClose(t, name) + Len(ClosingMarker)))

\* C14: EnsureAppsSectionExists: when apps opens it returns nil and leaves the
\* content alone; else, when the content has a "}", it inserts an empty apps
\* block right in front of the last "}" and apps exists afterwards; else it
\* returns an error and leaves the content alone.  A second call right after a
\* call that returned nil changes nothing.
C14_EnsureContainer ==
    /\ \A c \in LastEnsure :
           LET braces == Offsets(c.before, ClosingBrace)
           IN  IF Opens(c.before, apps)
               THEN c.err = Nil /\ c.after = c.before
               ELSE IF braces = {}
               THEN c.err = ErrNoClosingBrace /\ c.after = c.before
               ELSE LET b == Max(braces)
                        n == Len(c.after) - Len(c.before)
                    IN  /\ c.err = Nil
                        /\ n > 0
                        /\ Prefix(c.after, b) = Prefix(c.before, b)
                        /\ Suffix(c.after, b + n) = Suffix(c.before, b)
                        /\ EmptyBlock(SubSeq(c.after, b + 1, b + n), apps)
                        /\ CategoryExists(c.after, apps)
    /\ \A i \in LastPair :
           ( /\ log[i].op = "EnsureAppsSectionExists"
             /\ log[i + 1].op = "EnsureAppsSectionExists"
             /\ log[i].err = Nil )
           => log[i + 1].err = Nil /\ log[i + 1].after = log[i].after

\* A first EnsureAppsSectionExists has inserted the container into a document
\* with more than one "}", and a second one has followed it.
C14_Witness ==
    /\ Len(log) = 2
    /\ log[1].op = "EnsureAppsSectionExists"
    /\ log[2].op = "EnsureAppsSectionExists"
    /\ log[1].after # log[1].before
    /\ Cardinality(Offsets(log[1].before, ClosingBrace)) >= 2
    /\ log[2].after = log[2].before

LastEnable == {c \in LastCall : c.op = "EnablePackage"}

\* The disabled declarations of name in s, in the words of the specification:
\* name.enable, "=", false and ";" with zero or more whitespace characters
\* around "=" and before ";".  Each as <<offset of the name, offset just past
\* ";">>.
DisabledDeclarations(s, name) ==
    LET names == Offsets(s, name \o DotEnable)
        equals == Offsets(s, <<"=">>)
        falses == Offsets(s, FalseLit)
    IN  IF names = {} \/ falses = {} THEN {}
        ELSE {m \in names \X {t + 1 : t \in Offsets(s, <<";">>)} :
                 \E q \in equals, r \in falses :
                     /\ m[1] + Len(name) + Len(DotEnable) <= q
                     /\ q + 1 <= r
                     /\ r + Len(FalseLit) <= m[2] - 1
                     /\ AllSpace(s, m[1] + Len(name) + Len(DotEnable), q)
                     /\ AllSpace(s, q + 1, r)
                     /\ AllSpace(s, r + Len(FalseLit), m[2] - 1)}

\* s with the declarations ms rewritten to the canonical enabled declaration
\* of name, the rightmost first (so that the offsets of the others stay).
RECURSIVE Rewritten(_, _, _)
Rewritten(s, ms, name) ==
    IF ms = {} THEN s
    ELSE LET m == CHOOSE m \in ms : \A o \in ms : o[1] <= m[1]
         IN  Rewritten(Prefix(s, m[1]) \o Canonical(name) \o Suffix(s, m[2]),
                       ms \ {m}, name)

\* C15: EnablePackage(E) returns true exactly when the content held a disabled
\* declaration of E (any white space, none included, around "=" and before
\* ";"), and has then rewritten it to the canonical  E.enable = true; ; it
\* returns false and leaves the content alone when E is enabled already or not
\* declared.  A second EnablePackage(E) right after the first returns false
\* and changes nothing.
C15_Enable ==
    /\ \A c \in LastEnable :
           LET ms == DisabledDeclarations(c.before, c.packageName)
           IN  /\ c.changed <=> (ms # {})
               /\ ~c.changed => c.after = c.before
               /\ c.changed =>
                      /\ c.after = Rewritten(c.before, ms, c.packageName)
                      /\ DisabledDeclarations(c.after, c.packageName) = {}
                      /\ Offsets(c.after, Canonical(c.packageName)) # {}
    /\ \A i \in LastPair :
           ( /\ log[i].op = "EnablePackage"
             /\ log[i + 1].op = "EnablePackage"
             /\ log[i + 1].packageName = log[i].packageName )
           => ~log[i + 1].changed /\ log[i + 1].after = log[i].after

\* EnablePackage(E) has rewritten a disabled declaration written without the
\* canonical spacing, and a second EnablePackage(E) has followed it.
C15_Witness ==
    /\ Len(log) = 2
    /\ log[1].op = "EnablePackage"
    /\ log[2].op = "EnablePackage"
    /\ log[2].packageName = log[1].packageName
    /\ log[1].changed
    /\ Offsets(log[1].before, log[1].packageName \o DotEnable \o <<" ", "=", " ">>
                                  \o FalseLit \o <<";">>) = {}
    /\ ~log[2].changed

LastExistsProbe == {c \in LastCall : c.op = "CategoryExists"}

\* name, a spaces, "=", b spaces, "{"
Spaces(a) == [k \in 1..a |-> " "]
Variant(name, a, b) == name \o Spaces(a) \o <<"=">> \o Spaces(b) \o <<"{">>

\* C16: white space in the opening marker: CategoryExists(c) is true of every
\* content that holds c, zero or more whitespace characters, "=", zero or more
\* whitespace characters and "{" (and of no other), and the mutators that
\* locate a section find it under the same condition: AddOrEnablePackage
\* creates the category exactly when no such marker is there, its
\* AddPackageToCategory finds the category, and its CreateCategory finds apps
\* exactly when apps has such a marker.
C16_WhitespaceTolerance ==
    /\ \A c \in LastExistsProbe : c.result <=> Opens(c.before, c.category)
    /\ \A c \in LastUpsert :
           LET m == c.ran[1]
           IN  /\ (m.mutator = "CreateCategory") <=> ~Opens(c.before, c.category)
               /\ m.mutator = "AddPackageToCategory"
                      => m.result # ErrCategoryNotFound(c.category)
               /\ m.mutator = "CreateCategory"
                      => ((m.result # ErrAppsNotFound) <=> Opens(c.before, apps))

\* CategoryExists has answered true for a container written  apps={  and
\* AddOrEnablePackage has then added an entry to a category written with two
\* spaces on each side of "=".
C16_Witness ==
    /\ Len(log) = 2
    /\ log[1].op = "CategoryExists"
    /\ log[1].category = apps
    /\ log[1].result = TRUE
    /\ Offsets(log[1].before, Variant(apps, 0, 0)) # {}
    /\ log[2].op = "AddOrEnablePackage"
    /\ log[2].ran[1] = [mutator |-> "AddPackageToCategory", result |-> Nil]
    /\ Offsets(log[2].before, Variant(log[2].category, 1, 1)) = {}
    /\ Offsets(log[2].before, Variant(log[2].category, 2, 2)) # {}
    /\ log[2].after # log[2].before

\* A character that can belong to a section name: not white space and not one
\* of the tokens "=", "{", "}", ";".
NameChar(ch) == ~IsSpace(ch) /\ ch \notin {"=", "{", "}", ";"}

\* The opening markers of sections whose name is exactly name: the name does
\* not go on to the left.
ExactMarkers(s, name) ==
    {m \in Markers(s, name) : m[1] = 0 \/ ~NameChar(s[m[1]])}

\* C17: exact names: CategoryExists(name) is true only if a section whose
\* name is exactly name opens; a section whose name has name as a proper part
\* (myapps = { for apps) does not make it true and is not the section that
\* AddPackageToCategory or AddOrEnablePackage for name edits.
C17_ExactName ==
    /\ \A n \in SectionNames :
           CategoryExists(content, n) => ExactMarkers(content, n) # {}
    /\ \A c \in LastAdd \cup LastUpsert :
           c.after # c.before
               => \/ ~CategoryExists(c.before, c.category)
                  \/ <<FindCategoryStart(c.before, c.category)[1],
                       FindCategoryStart(c.before, c.category)[2]>>
                         \in ExactMarkers(c.before, c.category)

LastEntryProbe == {c \in LastCall : c.op = "PackageExistsInCategory"}

\* name.enable stands between the opening marker of category and the first
\* "};" after it.
DeclaredBetween(s, category, name) ==
    /\ ClosesAfterMarker(s, category)
    /\ \E d \in Offsets(s, name \o DotEnable) :
           /\ OpeningMarker(s, category)[2] <= d
           /\ d + Len(name) + Len(DotEnable) <= FirstClose(s, category)

\* C18: PackageExistsInCategory(C, E) is true exactly when C opens, a "};"
\* follows C's opening marker and E.enable is declared between the two; a
\* declaration counts whether it reads true or false; the answer is false when
\* C is absent and when E is declared in another category only.
C18_EntryProbe ==
    \A c \in LastEntryProbe :
        /\ c.result <=> DeclaredBetween(c.before, c.category, c.packageName)
        /\ \A v \in {TrueLit, FalseLit} :
               Declares(Section(c.before, c.category), c.packageName, v) => c.result
        /\ ~Opens(c.before, c.category) => ~c.result

\* PackageExistsInCategory has answered false for an entry that another
\* category declares, and then true for an entry declared disabled.
C18_Witness ==
    /\ Len(log) = 2
    /\ log[1].op = "PackageExistsInCategory"
    /\ log[1].result = FALSE
    /\ Opens(log[1].before, log[1].category)
    /\ \E d \in Categories \ {log[1].category} :
           DeclaredBetween(log[1].before, d, log[1].packageName)
    /\ log[2].op = "PackageExistsInCategory"
    /\ log[2].result = TRUE
    /\ Declares(Section(log[2].before, log[2].category), log[2].packageName, FalseLit)

ReadOnly == {"Content", "CategoryExists", "PackageExistsInCategory"}
LastProbe == {c \in LastCall : c.op \in ReadOnly}

\* C19: the read-only methods: Content() of a Config that has just been
\* constructed is the constructor's argument; Content, CategoryExists and
\* PackageExistsInCategory leave the content as it is and return a value, not
\* an error: false for a section or an entry that is absent.
C19_ReadOnly ==
    /\ (log # <<>> /\ log[1].op = "Content") => log[1].result = input
    /\ \A c \in LastProbe :
           /\ content = c.before
           /\ c.err = Nil
           /\ c.op = "Content" => c.result = c.before
           /\ c.op # "Content" =>
                  /\ c.result \in BOOLEAN
                  /\ ~Opens(c.before, c.category) => c.result = FALSE

\* Content() has been called on a new Config whose content starts with white
\* space, and then a probe for a section that is absent.
C19_Witness ==
    /\ Len(log) = 2
    /\ log[1].op = "Content"
    /\ log[1].result = input
    /\ input # <<>>
    /\ IsSpace(input[1])
    /\ log[2].op \in {"CategoryExists", "PackageExistsInCategory"}
    /\ ~Opens(log[2].before, log[2].category)
    /\ log[2].result = FALSE
    /\ content = input

Mutators == {"EnablePackage", "AddPackageToCategory", "CreateCategory",
             "EnsureAppsSectionExists", "AddOrEnablePackage"}

\* C20: markers stay discoverable: a section name for which CategoryExists is
\* true before a successful EnablePackage, AddPackageToCategory,
\* CreateCategory, EnsureAppsSectionExists or AddOrEnablePackage, with any
\* arguments, is one for which it is true after the call.
C20_MarkersKept ==
    \A c \in LastCall :
        (c.op \in Mutators /\ c.err = Nil /\ c.after # c.before) =>
            \A n \in SectionNames :
                CategoryExists(c.before, n) => CategoryExists(c.after, n)

\* Two different operations have each changed a content in which the
\* container and both categories open.
C20_Witness ==
    /\ Len(log) = 2
    /\ \A n \in SectionNames : CategoryExists(log[1].before, n)
    /\ log[1].op \in Mutators /\ log[2].op \in Mutators
    /\ log[1].op # log[2].op
    /\ log[1].err = Nil /\ log[2].err = Nil
    /\ log[1].after # log[1].before
    /\ log[2].after # log[2].before
    /\ \A n \in SectionNames : CategoryExists(content, n)

\* The content a call record leads to from the content s.
Applied(s, c) ==
    CASE c.op = "AddOrEnablePackage"
             -> AddOrEnablePackage(s, c.category, c.packageName).content
      [] c.op = "EnsureAppsSectionExists" -> EnsureAppsSectionExists(s).content
      [] c.op = "EnablePackage" -> EnablePackage(s, c.packageName).content
      [] c.op = "AddPackageToCategory"
             -> AddPackageToCategory(s, c.category, c.packageName).content
      [] c.op = "CreateCategory"
             -> CreateCategory(s, c.category, c.packageName).content
      [] OTHER -> s

\* The content of a Config built from the input d after the first k calls of
\* the sequence calls, made on it alone.
RECURSIVE Alone(_, _, _)
Alone(d, calls, k) ==
    IF k = 0 THEN NewConfig(d) ELSE Applied(Alone(d, calls, k - 1), calls[k])

\* C21: isolation of instances: with two Configs, built from the same input
\* or not, and their calls interleaved in any order, the content of each is
\* what its own calls, made on it alone, produce.
C21_InstanceIsolation ==
    peer # NoPeer =>
        /\ Content(content) = Alone(input, log, Len(log))
        /\ Content(peer.content) = Alone(peer.input, peer.log, Len(peer.log))

\* Two Configs built from the same input have each been changed by a call of
\* their own, and are different now.
C21_Witness ==
    /\ peer.input = input
    /\ input # <<>>
    /\ Len(log) = 1 /\ Len(peer.log) = 1
    /\ content # input
    /\ peer.content # input
    /\ content # peer.content

\* The calls that ran EnablePackage: the direct ones and the
\* AddOrEnablePackage that took the enable branch.
LastEnabling ==
    {c \in LastCall :
        \/ c.op = "EnablePackage"
        \/ c.op = "AddOrEnablePackage" /\ c.ran[1].mutator = "EnablePackage"}

\* C22: EnablePackage(E) is not scoped to a category: one call rewrites every
\* disabled declaration of E in the whole content, so after it, and after an
\* AddOrEnablePackage(C, E) that took the enable branch, no category declares
\* E disabled.
C22_EnableIsGlobal ==
    \A c \in LastEnabling :
        /\ c.after = Rewritten(c.before, DisabledDeclarations(c.before, c.packageName),
                                c.packageName)
        /\ DisabledDeclarations(c.after, c.packageName) = {}
        /\ \A n \in Categories :
               ~Declares(Section(c.after, n), c.packageName, FalseLit)

\* AddOrEnablePackage(C, E) has taken the enable branch on a content that
\* declared E disabled in C and in another category.
C22_Witness ==
    \E c \in LastEnabling :
        /\ c.op = "AddOrEnablePackage"
        /\ \A n \in Categories : Declares(Section(c.before, n), c.packageName, FalseLit)
        /\ Cardinality(DisabledDeclarations(c.before, c.packageName)) >= 2
        /\ DisabledDeclarations(c.after, c.packageName) = {}

\* EnsureAppsSectionExists has returned nil before the call log[j].
EnsuredBefore(j) ==
    \E k \in 1..(j - 1) :
        log[k].op = "EnsureAppsSectionExists" /\ log[k].err = Nil

\* C23: once EnsureAppsSectionExists has returned nil on a Config, every later
\* AddOrEnablePackage on it returns nil, whatever its arguments and whatever
\* was called in between.  The three steps that carry this to any number of
\* calls are part of the property: a successful EnsureAppsSectionExists
\* leaves apps open, no call closes it again, and AddOrEnablePackage returns
\* nil whenever apps opens.
C23_UpsertAfterEnsure ==
    /\ \A j \in 1..Len(log) :
           (log[j].op = "AddOrEnablePackage" /\ EnsuredBefore(j)) => log[j].err = Nil
    /\ \A c \in LastCall :
           /\ (c.op = "EnsureAppsSectionExists" /\ c.err = Nil)
                  => CategoryExists(c.after, apps)
           /\ CategoryExists(c.before, apps) => CategoryExists(c.after, apps)
           /\ (c.op = "AddOrEnablePackage" /\ CategoryExists(c.before, apps))
                  => c.err = Nil

\* EnsureAppsSectionExists has inserted the container and AddOrEnablePackage
\* has then created a category in it.
C23_Witness ==
    /\ Len(log) = 2
    /\ log[1].op = "EnsureAppsSectionExists"
    /\ log[1].err = Nil
    /\ log[1].after # log[1].before
    /\ log[2].op = "AddOrEnablePackage"
    /\ log[2].ran[1].mutator = "CreateCategory"
    /\ log[2].err = Nil

\* The declarations of name (name.enable, with any value) between offset p of
\* s and the first "};" at or after p; none when no "};" follows.
DeclarationsIn(s, p, name) ==
    LET closes == ClosingMarkersFrom(s, p)
    IN  IF closes = {} THEN {}
        ELSE {d \in Offsets(s, name \o DotEnable) :
                 p <= d /\ d + Len(name) + Len(DotEnable) <= Min(closes)}

\* s has at most one block named n for each category name n, and each block
\* that a locator can take for n holds at most one declaration of each entry.
NoDuplicates(s) ==
    \A n \in Categories :
        LET ms == Markers(s, n)
        IN  /\ Cardinality({m \in ms : m[1] = 0 \/ ~NameChar(s[m[1]])}) <= 1
            /\ \A m \in ms, e \in Packages :
                   Cardinality(DeclarationsIn(s, m[2], e)) <= 1

\* C24: AddOrEnablePackage never duplicates: from a content with at most one
\* block for each category and at most one declaration for each (category,
\* entry), any sequence of AddOrEnablePackage calls (with
\* EnsureAppsSectionExists and the probes between them) leads to a content
\* of which the same is true.
C24_NoDuplicates ==
    \A c \in LastCall :
        c.after # c.before => (NoDuplicates(content) \/ ~NoDuplicates(input))

\* AddOrEnablePackage(C, E) has created C with E in it, and a second
\* AddOrEnablePackage(C, E) has followed.
C24_Witness ==
    /\ Len(log) = 2
    /\ NoDuplicates(input)
    /\ log[1].op = "AddOrEnablePackage" /\ log[2].op = "AddOrEnablePackage"
    /\ log[1].ran[1] = [mutator |-> "CreateCategory", result |-> Nil]
    /\ log[2].category = log[1].category
    /\ log[2].packageName = log[1].packageName
    /\ Cardinality(Markers(content, log[1].category)) = 1
    /\ \E m \in Markers(content, log[1].category) :
           Cardinality(DeclarationsIn(content, m[2], log[1].packageName)) = 1

\* The AddOrEnablePackage calls that changed the content.
LastUpsertChange == {c \in LastUpsert : c.after # c.before}

\* C25: once PackageExistsInCategory(C, E) is true for a category C, it stays
\* true after every later AddOrEnablePackage, whatever its arguments, the
\* creation of a new category in front of C included.
C25_EntriesStable ==
    \A c \in LastUpsertChange :
        \A n \in Categories, e \in Packages :
            PackageExistsInCategory(c.before, n, e)
                => PackageExistsInCategory(c.after, n, e)

\* The last call, when it is a direct CreateCategory(C, E) on a document in
\* which C already opens.
LastRecreation ==
    {c \in LastCall : c.op = "CreateCategory" /\ CategoryExists(c.before, c.category)}

\* The call c succeeded and inserted a second block of C in front of the
\* first one; the entry probe and AddPackageToCategory on the result see the
\* new block only.
SecondBlockInFront(c) ==
    /\ c.err = Nil
    /\ Opens(c.before, apps)
    /\ LET a == OpeningMarker(c.before, apps)[2]
           n == Len(c.after) - Len(c.before)
           block == SubSeq(c.after, a + 1, a + n)
           old == OpeningMarker(c.before, c.category)
           new == OpeningMarker(c.after, c.category)
           close == FirstClose(c.after, c.category)
       IN  /\ n > 0
           /\ c.after = Prefix(c.before, a) \o block \o Suffix(c.before, a)
           /\ CompleteBlock(block, c.category, c.packageName)
           /\ a <= new[1] /\ new[2] <= a + n
           /\ a + n <= old[1] + n
           /\ <<old[1] + n, old[2] + n>> \in Markers(c.after, c.category)
           /\ new[2] <= close /\ close < a + n
           /\ \A x \in Packages :
                  /\ PackageExistsInCategory(c.after, c.category, x)
                         <=> PackageExistsInCategory(block, c.category, x)
                  /\ LET r == AddPackageToCategory(c.after, c.category, x)
                         m == Len(r.content) - Len(c.after)
                     IN  /\ r.err = Nil
                         /\ m > 0
                         /\ r.content = Prefix(c.after, close)
                                            \o SubSeq(r.content, close + 1, close + m)
                                            \o Suffix(c.after, close)

\* C26 as stated: CreateCategory called directly where C opens always
\* succeeds and puts a second block of C in front of the first, which the
\* entry probe and AddPackageToCategory then use exclusively.
C26_RecreationAsStated == \A c \in LastRecreation : SecondBlockInFront(c)

\* C26, amended: CreateCategory does not test for C; where C opens, it fails
\* exactly when the container does not open, and it puts the second block in
\* front of the first, for the probe and AddPackageToCategory to use, when
\* no opening marker of C starts before the end of the container's marker.
C26_Recreation ==
    \A c \in LastRecreation :
        /\ (c.err = ErrAppsNotFound) <=> ~Opens(c.before, apps)
        /\ (c.err = Nil) <=> Opens(c.before, apps)
        /\ c.err = Nil => /\ c.after # c.before
                          /\ Cardinality(Markers(c.after, c.category))
                                 = Cardinality(Markers(c.before, c.category)) + 1
        /\ ( /\ Opens(c.before, apps)
             /\ OpeningMarker(c.before, apps)[2]
                    <= OpeningMarker(c.before, c.category)[1] )
           => SecondBlockInFront(c)

\* CreateCategory was called for a category that opens inside the container
\* and holds another entry: the new block is in front, and the entry probe
\* no longer finds the entry of the old block.
C26_Witness ==
    \E c \in LastRecreation :
        /\ SecondBlockInFront(c)
        /\ \E x \in Packages :
               /\ PackageExistsInCategory(c.before, c.category, x)
               /\ ~PackageExistsInCategory(c.after, c.category, x)

\* The last call, when it is a direct call of one of the three inserting
\* mutators.
LastInsertion ==
    {c \in LastCall :
        c.op \in {"AddPackageToCategory", "CreateCategory", "EnsureAppsSectionExists"}}

\* t is s with n characters inserted at offset p; removing them gives s back.
InsertedAt(s, t, p, n) ==
    /\ Len(t) = Len(s) + n
    /\ Prefix(t, p) = Prefix(s, p)
    /\ Suffix(t, p + n) = Suffix(s, p)
    /\ Prefix(t, p) \o Suffix(t, p + n) = s

\* C27: a successful AddPackageToCategory, CreateCategory or
\* EnsureAppsSectionExists leaves the old content with one contiguous
\* non-empty block inserted at one offset (nothing at all when
\* EnsureAppsSectionExists finds the container present); no character of the
\* old content is deleted, altered or moved.
C27_PureInsertion ==
    \A c \in LastInsertion :
        c.err = Nil =>
            LET n == Len(c.after) - Len(c.before)
            IN  IF c.op = "EnsureAppsSectionExists" /\ CategoryExists(c.before, apps)
                THEN c.after = c.before
                ELSE /\ n > 0
                     /\ \E p \in 0..Len(c.before) : InsertedAt(c.before, c.after, p, n)

\* The three mutators have each inserted: after two successful insertions by
\* different mutators, the second strictly inside the document.
C27_Witness ==
    /\ Len(log) = 2
    /\ log[1].op = "EnsureAppsSectionExists" /\ log[1].err = Nil
    /\ log[1].after # log[1].before
    /\ log[2].op \in {"AddPackageToCategory", "CreateCategory"} /\ log[2].err = Nil
    /\ LET c == log[2]
           n == Len(c.after) - Len(c.before)
       IN  \E p \in 1..(Len(c.before) - 1) : InsertedAt(c.before, c.after, p, n)

\* Those of the offsets names of name \o ".enable" in s at which a declaration
\* with the value val starts: name, ".enable", whitespace, "=", whitespace,
\* val, whitespace, ";".
DeclarationsAmong(s, names, name, val) ==
    {p \in names :
        \E q \in (p + Len(name) + Len(DotEnable))..(Len(s) - 1) :
            /\ s[q + 1] = "="
            /\ AllSpace(s, p + Len(name) + Len(DotEnable), q)
            /\ \E r \in (q + 1)..(Len(s) - Len(val)) :
                   /\ s[r + 1] = val[1]
                   /\ MatchLit(s, r, val)
                   /\ AllSpace(s, q + 1, r)
                   /\ \E t \in (r + Len(val))..(Len(s) - 1) :
                          /\ s[t + 1] = ";"
                          /\ AllSpace(s, r + Len(val), t)}

\* The offsets of the declarations of name with the value val in s.
Declarations(s, name, val) ==
    DeclarationsAmong(s, Offsets(s, name \o DotEnable), name, val)

\* From s to t no declaration of name is lost, none that reads enabled is
\* lost or reads disabled, and there are no more disabled ones.
NothingUndone(s, t, name) ==
    LET namesBefore == Offsets(s, name \o DotEnable)
        namesAfter == Offsets(t, name \o DotEnable)
        disabledBefore == Cardinality(DeclarationsAmong(s, namesBefore, name, FalseLit))
        disabledAfter == Cardinality(DeclarationsAmong(t, namesAfter, name, FalseLit))
        enabledBefore == Cardinality(DeclarationsAmong(s, namesBefore, name, TrueLit))
        enabledAfter == Cardinality(DeclarationsAmong(t, namesAfter, name, TrueLit))
    IN  /\ Cardinality(namesAfter) >= Cardinality(namesBefore)
        /\ disabledAfter <= disabledBefore
        /\ enabledAfter >= enabledBefore
        /\ enabledAfter + disabledAfter >= enabledBefore + disabledBefore

\* C28: no call of EnablePackage, AddPackageToCategory, CreateCategory,
\* EnsureAppsSectionExists or AddOrEnablePackage removes a declaration or
\* turns an enabled one into a disabled one, and none adds a disabled one.
C28_NothingUndone ==
    \A c \in LastCall :
        c.after # c.before =>
            \A e \in Packages : NothingUndone(c.before, c.after, e)

\* An insertion, then a call that enabled a disabled declaration while an
\* enabled declaration of the other entry was in the document.
C28_Witness ==
    /\ Len(log) = 2
    /\ log[1].op \in {"AddPackageToCategory", "CreateCategory", "AddOrEnablePackage"}
    /\ log[1].after # log[1].before
    /\ log[2].op \in {"EnablePackage", "AddOrEnablePackage"}
    /\ \E e \in Packages, f \in Packages :
           /\ e # f
           /\ Declarations(input, e, FalseLit) # {}
           /\ Declarations(content, e, FalseLit) = {}
           /\ Declarations(log[2].before, f, TrueLit) # {}
           /\ Declarations(content, f, TrueLit) # {}

\* The four steps of one iteration of the host loop, in order.
IterationSteps ==
    <<"ReadFile", "EnsureAppsSectionExists", "AddOrEnablePackage", "WriteFile">>

\* What the loop writes for host h: the Content() of a Config built from the
\* file, after EnsureAppsSectionExists and AddOrEnablePackage.
Updated(h) ==
    LET ensured == EnsureAppsSectionExists(NewConfig(install.initial[h])).content
    IN  Content(AddOrEnablePackage(ensured, install.selectedFolder,
                                   install.PName).content)

\* The steps taken for host h with the given name and outcome.
StepsOf(h, name, ok) ==
    {k \in 1..Len(install.steps) :
        install.steps[k] = [host |-> h, step |-> name, ok |-> ok]}

\* C29: the host loop takes the selected hosts in order, one at a time, each
\* through read, EnsureAppsSectionExists, AddOrEnablePackage, write; a file
\* is written only after the three steps before it succeeded for that host,
\* and with the Content() of that host's Config; the first failing step is
\* the last step of the loop; the hosts before it keep their updated files
\* and the hosts after it keep their files as they were.
C29_HostLoop ==
    install.pc # "none" =>
        LET steps == install.steps
            sel == install.selectedHosts
        IN  /\ \A k \in 1..Len(steps) :
                   /\ ((k - 1) \div 4) + 1 <= Len(sel)
                   /\ steps[k].host = sel[((k - 1) \div 4) + 1]
                   /\ steps[k].step = IterationSteps[((k - 1) % 4) + 1]
                   /\ k < Len(steps) => steps[k].ok
                   /\ steps[k].step = "WriteFile" =>
                          /\ k >= 4
                          /\ \A j \in (k - 3)..(k - 1) :
                                 steps[j].ok /\ steps[j].host = steps[k].host
            /\ (steps # <<>> /\ ~steps[Len(steps)].ok) <=> install.pc = "returned"
            /\ install.pc = "done" <=>
                   /\ Len(steps) = 4 * Len(sel)
                   /\ \A k \in 1..Len(steps) : steps[k].ok
            /\ ( /\ steps # <<>>
                 /\ steps[Len(steps)] = [host |-> steps[Len(steps)].host,
                                         step |-> "WriteFile", ok |-> TRUE] )
               => install.files[steps[Len(steps)].host] = Content(install.nixcfg)
            /\ \A h \in Hosts :
                   IF StepsOf(h, "WriteFile", TRUE) # {}
                   THEN install.files[h] = Updated(h)
                   ELSE IF StepsOf(h, "WriteFile", FALSE) # {}
                   THEN install.files[h] \in FailedWrite(install.initial[h], Updated(h))
                   ELSE install.files[h] = install.initial[h]

\* Two hosts were selected; the file of the first was updated and written,
\* then a step failed for the second and the loop returned: the first file
\* stays updated, the second was not written.
C29_Witness ==
    /\ install.pc = "returned"
    /\ Len(install.selectedHosts) = 2
    /\ LET first == install.selectedHosts[1]
           second == install.selectedHosts[2]
       IN  /\ StepsOf(first, "WriteFile", TRUE) # {}
           /\ install.files[first] = Updated(first)
           /\ install.files[first] # install.initial[first]
           /\ StepsOf(second, "EnsureAppsSectionExists", FALSE) # {}
           /\ StepsOf(second, "WriteFile", TRUE) = {}
           /\ install.files[second] = install.initial[second]

====
